---- MODULE Spec2Model ----
(***************************************************************************)
(* Model of porter/psorter (src/src/main.rs): the pixel-sorting core       *)
(* (property evaluators, into_intervals, sort_image), the command-line     *)
(* batch of main and the per-frame closure of gui_main.                    *)
(*                                                                         *)
(* Pixels are egui::Color32 values, records [r, g, b, a] of 8-bit          *)
(* channels.  An image is an egui::ColorImage: [size |-> <<w, h>>,         *)
(* pixels |-> row-major sequence].  Rust indices are 0-based; a TLA+       *)
(* sequence is 1-based, so pixels[yi * width + xi] of the source is        *)
(* pixels[yi * width + xi + 1] here.  Intervals keep the source's 0-based  *)
(* half-open <<start, end>> form.                                          *)
(***************************************************************************)
EXTENDS Integers, Sequences, FiniteSets, TLC

VARIABLES
    \* into_intervals harness: the argument and the returned vector
    bitmap, seg_result, seg_pc,
    \* sort_image harness: the arguments, the buffer before the latest call,
    \* the number of calls made on the buffer
    buffer, before, lo, hi, method, calls,
    \* main (command line): argv after skip(1), position in main, remaining
    \* image paths, parsed arguments, files written, stderr, exit code
    argv, cli_pc, paths, cli_method, cli_lower, cli_higher, written, stderr,
    exit_code,
    \* gui_main: the variables captured by the frame closure, the name under
    \* which save_image last wrote sorted_image, the arguments of the latest
    \* sort_image call, and whether a frame panicked
    lower_threshold, higher_threshold, sort_by, texture, image, sorted_image,
    changed, image_name, saved, last_call, gui_pc

segVars == <<bitmap, seg_result, seg_pc>>
sortVars == <<buffer, before, lo, hi, method, calls>>
cliVars == <<argv, cli_pc, paths, cli_method, cli_lower, cli_higher, written,
             stderr, exit_code>>
guiVars == <<lower_threshold, higher_threshold, sort_by, texture, image,
             sorted_image, changed, image_name, saved, last_call, gui_pc>>
vars == <<segVars, sortVars, cliVars, guiVars>>

\* Option<T>: None is the empty tuple, Some(x) the one-element tuple
None == <<>>
Some(x) == <<x>>
unwrap(o) == o[1]

(***************************************************************************)
(* Bounds of the model.                                                    *)
(***************************************************************************)
MaxBits == 6        \* longest bitmap handed to into_intervals
MaxWidth == 3       \* widest generated image
MaxHeight == 2      \* tallest generated image
MaxPixels == 4      \* most pixels (width * height) of a generated image
MaxCalls == 2       \* sort_image calls made on one buffer
MaxPaths == 2       \* image paths on the command line
PlaceholderSide == 2 \* side of the GUI placeholder image (512 in the source)

(***************************************************************************)
(* enum SortBy and threshold_upper_boundary                                *)
(***************************************************************************)
SortBy == {"Luminance", "Hue", "Saturation"}

threshold_upper_boundary(m) ==
    IF m = "Hue" THEN 360 ELSE 255

(***************************************************************************)
(* Pixels.  The palette is chosen so that the f32 arithmetic of hue and    *)
(* saturation is exact on it (channels 0 or 255, or all three equal), and  *)
(* the integer formulas below give the very value the source computes.     *)
(***************************************************************************)
Color32(r, g, b, a) == [r |-> r, g |-> g, b |-> b, a |-> a]

TRANSPARENT == Color32(0, 0, 0, 0)
Red == Color32(255, 0, 0, 255)
Green == Color32(0, 255, 0, 255)
Magenta == Color32(255, 0, 255, 255)
Gray50 == Color32(50, 50, 50, 128)
Gray(k) == Color32(k, k, k, 255)

Palette == {Red, Green, Magenta, Gray50}

Min2(x, y) == IF x <= y THEN x ELSE y
Max2(x, y) == IF x >= y THEN x ELSE y
Abs(x) == IF x < 0 THEN -x ELSE x

\* ((r as u16) + (g as u16) + (b as u16)) / 3
luminance(pixel) == (pixel.r + pixel.g + pixel.b) \div 3

\* the sector formula times 60, plus 360 if negative, truncated by `as u16`.
\* num / d is the real value of the source's `hue` after the wrap; it is
\* never negative, so \div truncates as the cast does.
hue(pixel) ==
    LET red == pixel.r
        green == pixel.g
        blue == pixel.b
        min == Min2(blue, Min2(red, green))
        max == Max2(blue, Max2(red, green))
        d == max - min
        raw == IF max = red THEN 60 * (green - blue)
               ELSE IF max = green THEN 120 * d + 60 * (blue - red)
               ELSE 240 * d + 60 * (red - green)
        num == IF raw < 0 THEN raw + 360 * d ELSE raw
    IN  IF max = min THEN 0 ELSE num \div d

\* luminance = (max + min) / 2 on channels / 255;
\* saturation = 1 - |2 * luminance - 1|; (saturation * 255) as u16
saturation(pixel) ==
    LET min == Min2(pixel.b, Min2(pixel.r, pixel.g))
        max == Max2(pixel.b, Max2(pixel.r, pixel.g))
    IN  IF max = min THEN 0 ELSE 255 - Abs((max + min) - 255)

\* let pixel_property = match sorting_method { ... }
pixel_property(m, pixel) ==
    IF m = "Hue" THEN hue(pixel)
    ELSE IF m = "Saturation" THEN saturation(pixel)
    ELSE luminance(pixel)

(***************************************************************************)
(* into_intervals: one left-to-right scan with an optional run start.      *)
(***************************************************************************)
\* into_intervals without the push after the loop: a run still open at the
\* end of the bitmap is lost
RECURSIVE IntervalScan_NoFinalPush(_, _, _, _)
IntervalScan_NoFinalPush(bits, i, result, interval_start) ==
    IF i >= Len(bits) THEN result
    ELSE IF bits[i + 1] = FALSE /\ interval_start # None
         THEN IntervalScan_NoFinalPush(bits, i + 1,
                  Append(result, <<unwrap(interval_start), i>>), None)
    ELSE IF bits[i + 1] = TRUE /\ interval_start = None
         THEN IntervalScan_NoFinalPush(bits, i + 1, result, Some(i))
    ELSE IntervalScan_NoFinalPush(bits, i + 1, result, interval_start)

\* into_intervals closing a run one index late: (interval_start, i + 1)
RECURSIVE IntervalScan_LateClose(_, _, _, _)
IntervalScan_LateClose(bits, i, result, interval_start) ==
    IF i >= Len(bits)
    THEN IF interval_start # None
         THEN Append(result, <<unwrap(interval_start), Len(bits)>>)
         ELSE result
    ELSE IF bits[i + 1] = FALSE /\ interval_start # None
         THEN IntervalScan_LateClose(bits, i + 1,
                  Append(result, <<unwrap(interval_start), i + 1>>), None)
    ELSE IF bits[i + 1] = TRUE /\ interval_start = None
         THEN IntervalScan_LateClose(bits, i + 1, result, Some(i))
    ELSE IntervalScan_LateClose(bits, i + 1, result, interval_start)

RECURSIVE IntervalScan(_, _, _, _)
IntervalScan(bits, i, result, interval_start) ==
    IF i >= Len(bits)
    THEN IF interval_start # None
         THEN Append(result, <<unwrap(interval_start), Len(bits)>>)
         ELSE result
    ELSE IF bits[i + 1] = FALSE /\ interval_start # None
         THEN IntervalScan(bits, i + 1, Append(result, <<unwrap(interval_start), i>>), None)
    ELSE IF bits[i + 1] = TRUE /\ interval_start = None
         THEN IntervalScan(bits, i + 1, result, Some(i))
    ELSE IntervalScan(bits, i + 1, result, interval_start)

into_intervals(bits) == IntervalScan(bits, 0, <<>>, None)

(***************************************************************************)
(* sort_image                                                              *)
(***************************************************************************)
\* Vec::sort_by with the comparator key(a).cmp(key(b)): a stable sort.  An
\* element is inserted after every element whose key is not greater.
\* the comparator reversed: key(b).cmp(key(a))
RECURSIVE InsertByKey_Descending(_, _, _)
InsertByKey_Descending(m, sorted, p) ==
    IF sorted = <<>> THEN <<p>>
    ELSE IF pixel_property(m, p) > pixel_property(m, Head(sorted))
         THEN <<p>> \o sorted
         ELSE <<Head(sorted)>> \o InsertByKey_Descending(m, Tail(sorted), p)

\* an unstable sort: an element is placed before the elements of equal key
RECURSIVE InsertByKey_Unstable(_, _, _)
InsertByKey_Unstable(m, sorted, p) ==
    IF sorted = <<>> THEN <<p>>
    ELSE IF pixel_property(m, p) <= pixel_property(m, Head(sorted))
         THEN <<p>> \o sorted
         ELSE <<Head(sorted)>> \o InsertByKey_Unstable(m, Tail(sorted), p)

RECURSIVE InsertByKey(_, _, _)
InsertByKey(m, sorted, p) ==
    IF sorted = <<>> THEN <<p>>
    ELSE IF pixel_property(m, p) < pixel_property(m, Head(sorted))
         THEN <<p>> \o sorted
         ELSE <<Head(sorted)>> \o InsertByKey(m, Tail(sorted), p)

RECURSIVE SortFrom(_, _, _, _)
SortFrom(m, pixels, i, sorted) ==
    IF i > Len(pixels) THEN sorted
    ELSE SortFrom(m, pixels, i + 1, InsertByKey(m, sorted, pixels[i]))

sort_by_key(m, pixels) == SortFrom(m, pixels, 1, <<>>)

\* the acceptance bitmap of row yi
pixel_bitmap(l, h, img, m, yi) ==
    LET width == img.size[1]
    IN  [xi1 \in 1..width |->
            LET value == pixel_property(m, img.pixels[yi * width + xi1])
            IN  l <= value /\ value <= h]

\* the write-back without the row offset: image.pixels[xi] = pixels[i]
SortInterval_NoRowOffset(m, pixels, width, yi, interval) ==
    LET start == interval[1]
        end == interval[2]
        row == [i \in 1..(end - start) |-> pixels[yi * width + start + i]]
        sorted == sort_by_key(m, row)
    IN  [k \in 1..Len(pixels) |->
            IF k > start /\ k <= end
            THEN sorted[k - start]
            ELSE pixels[k]]

\* the body of `for interval in intervals`: copy out, sort, write back
SortInterval(m, pixels, width, yi, interval) ==
    LET start == interval[1]
        end == interval[2]
        row == [i \in 1..(end - start) |-> pixels[yi * width + start + i]]
        sorted == sort_by_key(m, row)
    IN  [k \in 1..Len(pixels) |->
            IF k > yi * width + start /\ k <= yi * width + end
            THEN sorted[k - (yi * width + start)]
            ELSE pixels[k]]

RECURSIVE SortIntervals(_, _, _, _, _, _)
SortIntervals(m, pixels, width, yi, intervals, n) ==
    IF n > Len(intervals) THEN pixels
    ELSE SortIntervals(m, SortInterval(m, pixels, width, yi, intervals[n]),
                       width, yi, intervals, n + 1)

\* the body of `for yi in 0..height`
SortRow(l, h, img, m, yi) ==
    LET intervals == into_intervals(pixel_bitmap(l, h, img, m, yi))
    IN  [img EXCEPT !.pixels =
            SortIntervals(m, img.pixels, img.size[1], yi, intervals, 1)]

RECURSIVE SortRows(_, _, _, _, _)
SortRows(l, h, img, m, yi) ==
    IF yi >= img.size[2] THEN img
    ELSE SortRows(l, h, SortRow(l, h, img, m, yi), m, yi + 1)

sort_image(l, h, img, m) == SortRows(l, h, img, m, 0)

(***************************************************************************)
(* Inputs of the harnesses.                                                *)
(***************************************************************************)
ThresholdStops == {0, 100, 255, 360}

BoundedSeqs(S, n) == UNION {[1..k -> S] : k \in 0..n}

ColorImage(w, h, pixels) == [size |-> <<w, h>>, pixels |-> pixels]

Sizes ==
    {size \in (0..MaxWidth) \X (0..MaxHeight) : size[1] * size[2] <= MaxPixels}

Images ==
    UNION {{ColorImage(size[1], size[2], p) :
                p \in [1..(size[1] * size[2]) -> Palette]} : size \in Sizes}

\* the row of the scenarios: luminance keys [200, 50, 10, 220, 30]
ScenarioImage ==
    ColorImage(5, 1, <<Gray(200), Gray(50), Gray(10), Gray(220), Gray(30)>>)

SegIdle == bitmap = <<>> /\ seg_result = <<>> /\ seg_pc = "idle"

SortIdle ==
    /\ buffer = ColorImage(0, 0, <<>>)
    /\ before = ColorImage(0, 0, <<>>)
    /\ lo = 0 /\ hi = 0 /\ method = "Luminance" /\ calls = 0

CliIdle ==
    /\ argv = <<>> /\ cli_pc = "idle" /\ paths = <<>>
    /\ cli_method = None /\ cli_lower = None /\ cli_higher = None
    /\ written = <<>> /\ stderr = <<>> /\ exit_code = None

GuiIdle ==
    /\ lower_threshold = 0 /\ higher_threshold = 0 /\ sort_by = "Luminance"
    /\ texture = None /\ image = ColorImage(0, 0, <<>>)
    /\ sorted_image = ColorImage(0, 0, <<>>) /\ changed = FALSE
    /\ image_name = "" /\ saved = None /\ last_call = None /\ gui_pc = "idle"

(***************************************************************************)
(* Specification SpecSeg: into_intervals applied to every bitmap of at     *)
(* most MaxBits booleans.                                                  *)
(***************************************************************************)
SegInit ==
    /\ bitmap \in BoundedSeqs(BOOLEAN, MaxBits)
    /\ seg_result = <<>>
    /\ seg_pc = "call"
    /\ SortIdle /\ CliIdle /\ GuiIdle

CallIntoIntervals ==
    /\ seg_pc = "call"
    /\ seg_result' = into_intervals(bitmap)
    /\ seg_pc' = "returned"
    /\ UNCHANGED <<bitmap, sortVars, cliVars, guiVars>>

SegNext == CallIntoIntervals

SpecSeg == SegInit /\ [][SegNext]_vars

(***************************************************************************)
(* Specification SpecSort: sort_image applied, up to MaxCalls times, to a  *)
(* buffer with a threshold pair (in order or not) and a sort property.     *)
(***************************************************************************)
SortInit ==
    /\ \/ /\ buffer \in Images
          /\ lo \in ThresholdStops
          /\ hi \in ThresholdStops
          /\ method \in SortBy
       \/ /\ buffer = ScenarioImage
          /\ \E range \in {<<0, 255>>, <<100, 255>>, <<0, 40>>} :
                lo = range[1] /\ hi = range[2]
          /\ method = "Luminance"
    /\ before = buffer
    /\ calls = 0
    /\ SegIdle /\ CliIdle /\ GuiIdle

CallSortImage ==
    /\ calls < MaxCalls
    /\ before' = buffer
    /\ buffer' = sort_image(lo, hi, buffer, method)
    /\ calls' = calls + 1
    /\ UNCHANGED <<lo, hi, method, segVars, cliVars, guiVars>>

SortNext == CallSortImage

SpecSort == SortInit /\ [][SortNext]_vars

(***************************************************************************)
(* Properties of into_intervals (under SpecSeg).                           *)
(***************************************************************************)
\* the 0-based indices covered by the half-open interval
Covered(interval) == {i \in Nat : i >= interval[1] /\ i < interval[2]} \cap 0..(MaxBits + 8)

TrueIndices(bits) == {i \in 0..(Len(bits) - 1) : bits[i + 1]}

\* C2: into_intervals returns half-open (start, end) pairs that are non-empty,
\* within the input, pairwise disjoint, strictly increasing in start,
\* non-adjacent (the end of one is strictly less than the start of the next)
\* and whose union is exactly the set of true indices; an empty or all-false
\* input gives the empty list, an all-true input the single interval [0, N).
C2_MaskPartition ==
    seg_pc = "returned" =>
        LET N == Len(bitmap)
            r == seg_result
        IN  /\ \A k \in 1..Len(r) : 0 <= r[k][1] /\ r[k][1] < r[k][2] /\ r[k][2] <= N
            /\ \A k \in 1..(Len(r) - 1) : r[k][2] < r[k + 1][1]
            /\ \A j, k \in 1..Len(r) : j # k => Covered(r[j]) \cap Covered(r[k]) = {}
            /\ UNION {Covered(r[k]) : k \in 1..Len(r)} = TrueIndices(bitmap)
            /\ (TrueIndices(bitmap) = {}) => r = <<>>
            /\ (N > 0 /\ TrueIndices(bitmap) = 0..(N - 1)) => r = <<<<0, N>>>>

\* a bitmap with two runs separated by a gap, and an open run at the end
C2_Witness ==
    /\ seg_pc = "returned"
    /\ bitmap = <<TRUE, TRUE, FALSE, FALSE, TRUE>>
    /\ seg_result = <<<<0, 2>>, <<4, 5>>>>

(***************************************************************************)
(* Properties of sort_image (under SpecSort).  The runs of a row are       *)
(* defined here from the keys alone, without into_intervals.               *)
(***************************************************************************)
Width(img) == img.size[1]
Height(img) == img.size[2]

\* the pixel at column xi of row yi (both 0-based)
PixelAt(img, yi, xi) == img.pixels[yi * Width(img) + xi + 1]

KeyAt(img, yi, xi) == pixel_property(method, PixelAt(img, yi, xi))

InRange(img, yi, xi) == lo <= KeyAt(img, yi, xi) /\ KeyAt(img, yi, xi) <= hi

\* the maximal runs [s, e) of in-range pixels of row yi
Runs(img, yi) ==
    {run \in (0..Width(img)) \X (0..Width(img)) :
        /\ run[1] < run[2]
        /\ \A xi \in run[1]..(run[2] - 1) : InRange(img, yi, xi)
        /\ run[1] = 0 \/ ~InRange(img, yi, run[1] - 1)
        /\ run[2] = Width(img) \/ ~InRange(img, yi, run[2])}

Rows(img) == 0..(Height(img) - 1)

RunPixels(img, yi, run) ==
    [i \in 1..(run[2] - run[1]) |-> PixelAt(img, yi, run[1] + i - 1)]

RowKeys(img, yi) == [i \in 1..Width(img) |-> KeyAt(img, yi, i - 1)]

NonDecreasing(img, yi, run) ==
    \A xi \in run[1]..(run[2] - 2) : KeyAt(img, yi, xi) <= KeyAt(img, yi, xi + 1)

\* C1: with lower <= upper, after sort_image returns, in every row every
\* maximal run of pixels whose key lies in [lower, upper] has non-decreasing
\* keys; keys [200, 50, 10, 220, 30] with threshold [0, 255] become
\* [10, 30, 50, 200, 220].
C1_RunsSorted ==
    (calls >= 1 /\ lo <= hi) =>
        /\ \A yi \in Rows(buffer) : \A run \in Runs(buffer, yi) :
               NonDecreasing(buffer, yi, run)
        /\ (calls = 1 /\ before = ScenarioImage /\ lo = 0 /\ hi = 255)
               => RowKeys(buffer, 0) = <<10, 30, 50, 200, 220>>

C1_Witness ==
    /\ calls = 1 /\ before = ScenarioImage /\ lo = 0 /\ hi = 255
    /\ buffer # before
    /\ RowKeys(buffer, 0) = <<10, 30, 50, 200, 220>>

Count(seq, p) == Cardinality({i \in DOMAIN seq : seq[i] = p})

InSomeRun(img, yi, xi) ==
    \E run \in Runs(img, yi) : run[1] <= xi /\ xi < run[2]

\* C3: sort_image only reorders whole pixels inside accepted intervals: in
\* every interval the multiset of pixels (all four channels) is the same
\* before and after the call, and every pixel outside all intervals is
\* unchanged at its position.
C3_PermutationAndFrame ==
    calls >= 1 =>
        /\ buffer.size = before.size
        /\ Len(buffer.pixels) = Len(before.pixels)
        /\ \A yi \in Rows(before) :
             /\ \A run \in Runs(before, yi) :
                  \A p \in {before.pixels[i] : i \in DOMAIN before.pixels}
                        \cup {buffer.pixels[i] : i \in DOMAIN buffer.pixels} :
                      Count(RunPixels(before, yi, run), p)
                          = Count(RunPixels(buffer, yi, run), p)
             /\ \A xi \in 0..(Width(before) - 1) :
                  ~InSomeRun(before, yi, xi)
                      => PixelAt(buffer, yi, xi) = PixelAt(before, yi, xi)

\* a two-row image whose second row is reordered and whose first row holds a
\* rejected pixel
C3_Witness ==
    /\ calls = 1
    /\ Height(before) = 2
    /\ buffer # before
    /\ \E xi \in 0..(Width(before) - 1) : ~InSomeRun(before, 0, xi)
    /\ \E run \in Runs(before, 1) :
           RunPixels(before, 1, run) # RunPixels(buffer, 1, run)

\* the pixels of seq whose key is k, in order
RECURSIVE WithKey(_, _)
WithKey(seq, k) ==
    IF seq = <<>> THEN <<>>
    ELSE IF pixel_property(method, Head(seq)) = k
         THEN <<Head(seq)>> \o WithKey(Tail(seq), k)
         ELSE WithKey(Tail(seq), k)

KeysOf(seq) == {pixel_property(method, seq[i]) : i \in DOMAIN seq}

\* C4: the interval sort is stable: in every accepted interval the pixels of
\* equal key keep their relative order.
C4_Stable ==
    calls >= 1 =>
        \A yi \in Rows(before) : \A run \in Runs(before, yi) :
            \A k \in KeysOf(RunPixels(before, yi, run)) :
                WithKey(RunPixels(buffer, yi, run), k)
                    = WithKey(RunPixels(before, yi, run), k)

\* two different pixels of equal key that had to move past a third one
C4_Witness ==
    /\ calls = 1
    /\ \E yi \in Rows(before) : \E run \in Runs(before, yi) :
         /\ RunPixels(buffer, yi, run) # RunPixels(before, yi, run)
         /\ \E k \in KeysOf(RunPixels(before, yi, run)) :
              LET same == WithKey(RunPixels(before, yi, run), k)
              IN  Len(same) >= 2 /\ same[1] # same[2]

\* C5: sort_image invoked with lower > upper fails with a configuration
\* error: no call with an invalid range completes normally.  (calls counts
\* the calls that returned normally; sort_image has no other way to return.)
C5_InvalidRangeRejected ==
    calls >= 1 => lo <= hi

\* C8 as claimed: scenario C: keys [200, 50, 10, 220, 30] by luminance with
\* threshold [0, 40]: accepted indices {1, 2, 4}, intervals [1, 3) and
\* [4, 5), result [200, 10, 50, 220, 30].
C8_ScenarioC_AsClaimed ==
    (calls = 1 /\ before = ScenarioImage /\ lo = 0 /\ hi = 40
        /\ method = "Luminance") =>
        /\ {xi \in 0..4 : InRange(before, 0, xi)} = {1, 2, 4}
        /\ into_intervals(pixel_bitmap(lo, hi, before, method, 0))
               = <<<<1, 3>>, <<4, 5>>>>
        /\ RowKeys(buffer, 0) = <<200, 10, 50, 220, 30>>

\* C8 (amended): scenario C: keys [200, 50, 10, 220, 30] by luminance with
\* threshold [0, 40]: key 50 is outside [0, 40], so the accepted indices are
\* {2, 4}, the intervals are [2, 3) and [4, 5), and the row is unchanged:
\* [200, 50, 10, 220, 30].
C8_ScenarioC_Amended ==
    (calls = 1 /\ before = ScenarioImage /\ lo = 0 /\ hi = 40
        /\ method = "Luminance") =>
        /\ {xi \in 0..4 : InRange(before, 0, xi)} = {2, 4}
        /\ into_intervals(pixel_bitmap(lo, hi, before, method, 0))
               = <<<<2, 3>>, <<4, 5>>>>
        /\ RowKeys(buffer, 0) = <<200, 50, 10, 220, 30>>

C8_Witness ==
    /\ calls = 1 /\ before = ScenarioImage /\ lo = 0 /\ hi = 40
    /\ method = "Luminance"
    /\ RowKeys(before, 0) = <<200, 50, 10, 220, 30>>
    /\ Runs(before, 0) = {<<2, 3>>, <<4, 5>>}

AllRunsSorted(img) ==
    \A yi \in Rows(img) : \A run \in Runs(img, yi) : NonDecreasing(img, yi, run)

\* C9: if every accepted run of every row is already non-decreasing,
\* sort_image leaves the buffer unchanged; and a second sort_image with the
\* same thresholds and property gives the buffer the first one gave.
C9_Idempotent ==
    /\ (calls >= 1 /\ AllRunsSorted(before)) => buffer = before
    /\ calls >= 2 => buffer = before

\* a second call on a buffer with a run of three or more pixels, two of them
\* different pixels of equal key
C9_Witness ==
    /\ calls = 2
    /\ buffer = before
    /\ \E yi \in Rows(before) : \E run \in Runs(before, yi) :
         /\ run[2] - run[1] >= 3
         /\ \E i, j \in 1..(run[2] - run[1]) :
              /\ i < j
              /\ RunPixels(before, yi, run)[i] # RunPixels(before, yi, run)[j]
              /\ pixel_property(method, RunPixels(before, yi, run)[i])
                   = pixel_property(method, RunPixels(before, yi, run)[j])

(***************************************************************************)
(* main: the command line.  Specification SpecCli.                         *)
(***************************************************************************)
MethodTokens == {"l", "h", "s", "x"}
ThresholdTokens == {"0", "100", "255", "abc"}
Paths == {"a.png", "dir/b.png", "missing.png"}

\* str::parse::<u16> on the tokens of the model
ParseU16(token) ==
    CASE token = "0" -> Some(0)
      [] token = "100" -> Some(100)
      [] token = "255" -> Some(255)
      [] OTHER -> None

\* Path::new(path).file_name()
file_name(path) ==
    CASE path = "dir/b.png" -> "b.png"
      [] OTHER -> path

\* the files of the model: two readable images and a path that cannot be
\* opened.  Ok(image) is Some(image), Err(e) is None.
load_image_from_path(path) ==
    CASE path = "a.png" -> Some(ColorImage(3, 1, <<Magenta, Red, Gray50>>))
      [] path = "dir/b.png" -> Some(ColorImage(2, 2, <<Green, Red, Magenta, Gray50>>))
      [] OTHER -> None

PathLists == UNION {[1..k -> Paths] : k \in 1..MaxPaths}

ArgvSet ==
    {<<>>, <<"l">>, <<"l", "0", "255">>}
        \cup {<<m, l, h>> \o ps : m \in MethodTokens, l \in ThresholdTokens,
                                  h \in ThresholdTokens, ps \in PathLists}

CliInit ==
    /\ argv \in ArgvSet
    /\ cli_pc = "start"
    /\ paths = <<>>
    /\ cli_method = None /\ cli_lower = None /\ cli_higher = None
    /\ written = <<>> /\ stderr = <<>> /\ exit_code = None
    /\ SegIdle /\ SortIdle /\ GuiIdle

Exit(code, message) ==
    /\ cli_pc' = "exited"
    /\ exit_code' = Some(code)
    /\ stderr' = IF message = None THEN stderr ELSE Append(stderr, unwrap(message))

\* main up to the loop: argument count, method, thresholds, threshold order
ParseArgs ==
    /\ cli_pc = "start"
    /\ UNCHANGED <<argv, written, segVars, sortVars, guiVars>>
    /\ IF Len(argv) = 0
       THEN /\ cli_pc' = "gui"
            /\ UNCHANGED <<paths, cli_method, cli_lower, cli_higher, stderr, exit_code>>
       ELSE IF Len(argv) < 4
       THEN /\ Exit(1, Some([msg |-> "USAGE"]))
            /\ UNCHANGED <<paths, cli_method, cli_lower, cli_higher>>
       ELSE IF argv[1] \notin {"l", "h", "s"}
       THEN /\ Exit(1, Some([msg |-> "ERROR: sorting method"]))
            /\ UNCHANGED <<paths, cli_method, cli_lower, cli_higher>>
       ELSE LET sorting_method == CASE argv[1] = "l" -> "Luminance"
                                    [] argv[1] = "h" -> "Hue"
                                    [] argv[1] = "s" -> "Saturation"
                l == ParseU16(argv[2])
                h == ParseU16(argv[3])
            IN  /\ cli_method' = Some(sorting_method)
                /\ cli_lower' = l
                /\ cli_higher' = IF l = None THEN None ELSE h
                /\ IF l = None \/ h = None
                   THEN \* expect("ERROR: threshold must be an integer") panics
                        /\ Exit(101, Some([msg |-> "panic: threshold must be an integer"]))
                        /\ UNCHANGED paths
                   ELSE IF unwrap(l) > unwrap(h)
                   THEN /\ Exit(1, Some([msg |-> "ERROR: lower threshold cannot be bigger"]))
                        /\ UNCHANGED paths
                   ELSE /\ cli_pc' = "loop"
                        /\ paths' = SubSeq(argv, 4, Len(argv))
                        /\ UNCHANGED <<stderr, exit_code>>

\* gui_main returned: exit(1) on an error, exit(0) otherwise
GuiReturned ==
    /\ cli_pc = "gui"
    /\ \E is_err \in BOOLEAN : Exit(IF is_err THEN 1 ELSE 0, None)
    /\ UNCHANGED <<argv, paths, cli_method, cli_lower, cli_higher, written,
                   segVars, sortVars, guiVars>>

\* one iteration of `for path in args`: load, sort_image, save_buffer
ProcessPath ==
    /\ cli_pc = "loop"
    /\ paths # <<>>
    /\ UNCHANGED <<argv, cli_method, cli_lower, cli_higher, segVars, sortVars, guiVars>>
    /\ LET path == Head(paths)
           loaded == load_image_from_path(path)
       IN  IF loaded = None
           THEN /\ Exit(1, Some([msg |-> "ERROR: cannot load image", path |-> path]))
                /\ UNCHANGED <<paths, written>>
           ELSE LET sorted == sort_image(unwrap(cli_lower), unwrap(cli_higher),
                                         unwrap(loaded), unwrap(cli_method))
                    new_file_name == "sorted-" \o file_name(path)
                IN  \E save_ok \in BOOLEAN :
                        IF save_ok
                        THEN /\ written' = Append(written,
                                    [name |-> new_file_name, image |-> sorted])
                             /\ paths' = Tail(paths)
                             /\ UNCHANGED <<cli_pc, exit_code, stderr>>
                        ELSE /\ Exit(101, Some([msg |-> "panic: failed to save file",
                                                path |-> new_file_name]))
                             /\ UNCHANGED <<paths, written>>

\* the loop is over: main returns
MainReturns ==
    /\ cli_pc = "loop"
    /\ paths = <<>>
    /\ Exit(0, None)
    /\ UNCHANGED <<argv, paths, cli_method, cli_lower, cli_higher, written,
                   segVars, sortVars, guiVars>>

CliNext == ParseArgs \/ GuiReturned \/ ProcessPath \/ MainReturns

SpecCli == CliInit /\ [][CliNext]_vars

\* the image paths of the command line, and the batch having been started
ImagePaths == SubSeq(argv, 4, Len(argv))
BatchStarted == Len(argv) >= 4 /\ cli_lower # None /\ cli_higher # None
                    /\ unwrap(cli_lower) <= unwrap(cli_higher)
SaveFailed == \E i \in DOMAIN stderr : stderr[i].msg = "panic: failed to save file"
Unloadable(path) == load_image_from_path(path) = None

\* C6: in a batch, a load failure on one image is logged and is not fatal:
\* every other loadable path of the list is still loaded, sorted and saved,
\* and the process exits with code 1 only after the whole list has been
\* processed (0 if every image succeeded).
C6_BatchContinues ==
    (cli_pc = "exited" /\ BatchStarted /\ ~SaveFailed) =>
        /\ \A i \in DOMAIN ImagePaths :
              ~Unloadable(ImagePaths[i]) =>
                  \E j \in DOMAIN written :
                      written[j].name = "sorted-" \o file_name(ImagePaths[i])
        /\ \A i \in DOMAIN ImagePaths :
              Unloadable(ImagePaths[i]) =>
                  \E j \in DOMAIN stderr :
                      stderr[j] = [msg |-> "ERROR: cannot load image",
                                   path |-> ImagePaths[i]]
        /\ exit_code = IF \E i \in DOMAIN ImagePaths : Unloadable(ImagePaths[i])
                       THEN Some(1) ELSE Some(0)

(***************************************************************************)
(* gui_main: the state captured by the frame closure and one action for a  *)
(* whole frame.  Specification SpecGui.                                    *)
(***************************************************************************)
\* the positions a slider can be put at by the user
SliderStops == {0, 100, 255, 300, 360}

Placeholder ==
    ColorImage(PlaceholderSide, PlaceholderSide,
               [i \in 1..(PlaceholderSide * PlaceholderSide) |-> TRANSPARENT])

GuiInit ==
    /\ lower_threshold = 0
    /\ higher_threshold = 255
    /\ sort_by = "Luminance"
    /\ texture = None
    /\ image = Placeholder
    /\ sorted_image = Placeholder
    /\ changed = TRUE
    /\ image_name = "placeholder"
    /\ saved = None
    /\ last_call = None
    /\ gui_pc = "running"
    /\ SegIdle /\ SortIdle /\ CliIdle

\* Ord::clamp: panics unless min <= max
clamp(x, min, max) == IF x < min THEN min ELSE IF x > max THEN max ELSE x

\* egui::Slider::new(&mut value, 0..=upper).  The slider reads the variable
\* clamped to its range.  Left alone (input None) it writes nothing and
\* reports no change; put at v by the user it writes v and reports a change
\* when v differs from the clamped value it read.
Slider(value, upper, input) ==
    IF input = None
    THEN [value |-> value, changed |-> FALSE]
    ELSE [value |-> unwrap(input),
          changed |-> unwrap(input) # clamp(value, 0, upper)]

SliderInputs(upper) == {None} \cup {Some(v) : v \in {u \in SliderStops : u <= upper}}

\* open_image: the dialog cancelled (None) or a path picked; a path that
\* cannot be loaded gives None
open_image(picked) ==
    IF picked = None THEN None
    ELSE IF load_image_from_path(unwrap(picked)) = None THEN None
    ELSE Some([image |-> unwrap(load_image_from_path(unwrap(picked))),
               name |-> file_name(unwrap(picked))])

\* the else-if chain over the three property buttons
ClickedSortBy(clicks, current) ==
    IF "Luminance" \in clicks THEN "Luminance"
    ELSE IF "Hue" \in clicks THEN "Hue"
    ELSE IF "Saturation" \in clicks THEN "Saturation"
    ELSE current

\* a property button sets `changed` only in the Luminance branch
ClickedChanged_OnlyLuminance(clicks) == "Luminance" \in clicks

\* every branch of the chain sets changed = true
ClickedChanged(clicks) == clicks # {}

\* What the user did during one frame.  egui delivers the pointer to one
\* widget at a time, so a frame sees an interaction with at most one widget:
\* a slider put at a stop, a file picked in the open dialog, the save button
\* ("ok", or "fail": save_buffer failed), or property buttons reported
\* clicked.  A cancelled dialog is the same as no click.
NoInput ==
    [lower |-> None, higher |-> None, picked |-> None, save |-> "none", clicks |-> {}]

FrameInputs(upper) ==
    {NoInput}
        \cup {[NoInput EXCEPT !.lower = in] : in \in SliderInputs(upper)}
        \cup {[NoInput EXCEPT !.higher = in] : in \in SliderInputs(upper)}
        \cup {[NoInput EXCEPT !.picked = Some(path)] : path \in Paths}
        \cup {[NoInput EXCEPT !.save = outcome] : outcome \in {"ok", "fail"}}
        \cup {[NoInput EXCEPT !.clicks = c] : c \in SUBSET SortBy}

\* One frame of the closure passed to run_simple_native.
Frame ==
    /\ gui_pc = "running"
    /\ UNCHANGED <<segVars, sortVars, cliVars>>
    /\ \E input \in FrameInputs(threshold_upper_boundary(sort_by)) :
        LET lower_input == input.lower
            higher_input == input.higher
            picked == input.picked
            save == input.save
            clicks == input.clicks
        IN
        LET upper_boundary == threshold_upper_boundary(sort_by)
            lower_slider == Slider(lower_threshold, upper_boundary, lower_input)
            changed1 == lower_slider.changed \/ changed
            new_lower == clamp(lower_slider.value, 0, higher_threshold)
            higher_slider == Slider(higher_threshold, upper_boundary, higher_input)
            changed2 == higher_slider.changed \/ changed1
            new_higher == clamp(higher_slider.value, new_lower, upper_boundary)
            opened == open_image(picked)
            new_image == IF opened = None THEN image ELSE unwrap(opened).image
            new_name == IF opened = None THEN image_name ELSE unwrap(opened).name
            texture1 == IF opened = None THEN texture ELSE Some(new_image)
            changed3 == changed2 \/ opened # None
            new_sort_by == ClickedSortBy(clicks, sort_by)
            changed4 == changed3 \/ ClickedChanged(clicks)
            texture2 == IF texture1 = None THEN Some(new_image) ELSE texture1
            sorted == sort_image(new_lower, new_higher, new_image, new_sort_by)
        IN  IF new_lower > upper_boundary
            THEN \* clamp(lower_threshold, upper_boundary) panics: min > max
                 /\ gui_pc' = "panicked in clamp"
                 /\ lower_threshold' = new_lower
                 /\ changed' = changed2
                 /\ UNCHANGED <<higher_threshold, sort_by, texture, image,
                                sorted_image, image_name, saved, last_call>>
            ELSE IF save = "fail"
            THEN \* save_buffer(...).expect(...) panics
                 /\ gui_pc' = "panicked in save_image"
                 /\ lower_threshold' = new_lower
                 /\ higher_threshold' = new_higher
                 /\ changed' = changed3
                 /\ image' = new_image
                 /\ image_name' = new_name
                 /\ texture' = texture1
                 /\ UNCHANGED <<sort_by, sorted_image, saved, last_call>>
            ELSE /\ gui_pc' = "running"
                 /\ lower_threshold' = new_lower
                 /\ higher_threshold' = new_higher
                 /\ image' = new_image
                 /\ image_name' = new_name
                 /\ saved' = IF save = "ok" THEN Some(new_name) ELSE saved
                 /\ sort_by' = new_sort_by
                 /\ changed' = FALSE
                 /\ sorted_image' = IF changed4 THEN sorted ELSE sorted_image
                 /\ texture' = IF changed4 THEN Some(sorted) ELSE texture2
                 /\ last_call' = IF changed4
                                 THEN Some([lower_threshold |-> new_lower,
                                            higher_threshold |-> new_higher,
                                            sorting_method |-> new_sort_by])
                                 ELSE last_call

GuiNext == Frame

SpecGui == GuiInit /\ [][GuiNext]_vars

\* the images a file open can yield, and the placeholder: the unsorted sources
SourceImages ==
    {Placeholder} \cup {unwrap(load_image_from_path(path)) :
                           path \in {q \in Paths : load_image_from_path(q) # None}}

FrameEnded == gui_pc = "running" /\ last_call # None

\* C7: at the end of every frame, sorted_image equals sort_image applied to a
\* fresh copy of the loaded unsorted source with the current thresholds and
\* property; the source image is never modified by sorting.
C7_PreviewIsFreshSort ==
    FrameEnded =>
        /\ ~changed
        /\ sorted_image = sort_image(lower_threshold, higher_threshold, image, sort_by)
        /\ image \in SourceImages

\* a loaded image was sorted by hue thresholds [0, 360] after a switch to
\* Luminance, and a later frame has brought the higher threshold back into
\* the Luminance range without a new sort
C7_Witness ==
    /\ FrameEnded
    /\ image = unwrap(load_image_from_path("a.png"))
    /\ sorted_image # image
    /\ sort_by = "Luminance"
    /\ unwrap(last_call).higher_threshold = 360
    /\ higher_threshold = 255

\* C10: every frame's threshold update completes with the clamp bounds in
\* order, and every call to sort_image receives thresholds with
\* 0 <= lower_threshold <= higher_threshold
\*   <= threshold_upper_boundary(sort_by) for the property passed to it.
C10_ThresholdsWithinBoundary ==
    /\ gui_pc # "panicked in clamp"
    /\ last_call # None =>
          LET call == unwrap(last_call)
          IN  /\ 0 <= call.lower_threshold
              /\ call.lower_threshold <= call.higher_threshold
              /\ call.higher_threshold <= threshold_upper_boundary(call.sorting_method)

====
